---- MODULE Spec2Model ----
(***************************************************************************)
(* Model of src/remove_ids.py (class IDRemover): the identifier-stripping  *)
(* pipeline over a navigation manifest (docs.json) and a tree of .mdx      *)
(* content files.                                                          *)
(*                                                                         *)
(* A Python str is a sequence of one-character strings.  A JSON value is a *)
(* record [k, s, keys, items]: k is the kind ("str", "null", "num", "list",*)
(* "dict"), s the characters of a str, keys/items the ordered keys and     *)
(* values of a dict, items the elements of a list.                         *)
(* The filesystem follows POSIX: Path.rename replaces an existing file.    *)
(***************************************************************************)
EXTENDS Integers, Sequences, FiniteSets, TLC

(***************************************************************************)
(* Characters and strings                                                  *)
(***************************************************************************)
DigitSeq == <<"0", "1", "2", "3", "4", "5", "6", "7", "8", "9">>

UpperSeq == <<"A", "B", "C", "D", "E", "F", "G", "H", "I", "J", "K", "L", "M",
              "N", "O", "P", "Q", "R", "S", "T", "U", "V", "W", "X", "Y", "Z">>

LowerSeq == <<"a", "b", "c", "d", "e", "f", "g", "h", "i", "j", "k", "l", "m",
              "n", "o", "p", "q", "r", "s", "t", "u", "v", "w", "x", "y", "z">>

Range(seq) == {seq[i] : i \in 1..Len(seq)}

IndexOf(seq, c) == CHOOSE i \in 1..Len(seq) : seq[i] = c

DigitSet == Range(DigitSeq)

UpperSet == Range(UpperSeq)

LowerSet == Range(LowerSeq)

\* the character class [A-Za-z0-9] of id_pattern
AlNum == UpperSet \cup LowerSet \cup DigitSet

\* the code point of a character (Python compares str by code point)
Ord(c) ==
    IF c \in DigitSet THEN 47 + IndexOf(DigitSeq, c)
    ELSE IF c \in UpperSet THEN 64 + IndexOf(UpperSeq, c)
    ELSE IF c \in LowerSet THEN 96 + IndexOf(LowerSeq, c)
    ELSE IF c = "\n" THEN 10
    ELSE IF c = "-" THEN 45
    ELSE IF c = "." THEN 46
    ELSE IF c = "/" THEN 47
    ELSE 95

\* Python's str < str
RECURSIVE StrLess(_, _)
StrLess(a, b) ==
    IF b = <<>> THEN FALSE
    ELSE IF a = <<>> THEN TRUE
    ELSE IF Head(a) = Head(b) THEN StrLess(Tail(a), Tail(b))
    ELSE Ord(Head(a)) < Ord(Head(b))

\* name.split('/'): never empty, "" splits into [""]
RECURSIVE SplitLoop(_, _, _)
SplitLoop(str, parts, part) ==
    IF str = <<>> THEN Append(parts, part)
    ELSE IF Head(str) = "/" THEN SplitLoop(Tail(str), Append(parts, part), <<>>)
    ELSE SplitLoop(Tail(str), parts, Append(part, Head(str)))

Split(str) == SplitLoop(str, <<>>, <<>>)

\* '/'.join(parts): the join of no part is ""
RECURSIVE Join(_)
Join(parts) ==
    IF parts = <<>> THEN <<>>
    ELSE IF Len(parts) = 1 THEN parts[1]
    ELSE parts[1] \o <<"/">> \o Join(Tail(parts))

IdMinLen == 20

\* re.match(r'^[A-Za-z0-9]{20,}$', part): `$` also matches just before a
\* newline that ends the string
ReMatchIdPattern(part) ==
    LET n == Len(part)
    IN  \/ /\ n >= IdMinLen
           /\ \A i \in 1..n : part[i] \in AlNum
        \/ /\ n >= IdMinLen + 1
           /\ part[n] = "\n"
           /\ \A i \in 1..(n - 1) : part[i] \in AlNum

\* the loop that stops testing after the first identifier
RECURSIVE CleanedParts_first_only(_)
CleanedParts_first_only(parts) ==
    IF parts = <<>> THEN <<>>
    ELSE IF ~ReMatchIdPattern(Head(parts))
         THEN <<Head(parts)>> \o CleanedParts_first_only(Tail(parts))
         ELSE Tail(parts)

\* lines 31-35
RECURSIVE CleanedParts(_)
CleanedParts(parts) ==
    IF parts = <<>> THEN <<>>
    ELSE IF ~ReMatchIdPattern(Head(parts))
         THEN <<Head(parts)>> \o CleanedParts(Tail(parts))
         ELSE CleanedParts(Tail(parts))

extract_filename_without_id(name) == Join(CleanedParts(Split(name)))

convert_path(path) == extract_filename_without_id(path)

(***************************************************************************)
(* JSON values                                                             *)
(***************************************************************************)
JStr(str) == [k |-> "str", s |-> str, keys |-> <<>>, items |-> <<>>]

JNull == [k |-> "null", s |-> <<>>, keys |-> <<>>, items |-> <<>>]

JNum == [k |-> "num", s |-> <<>>, keys |-> <<>>, items |-> <<>>]

JList(elems) == [k |-> "list", s |-> <<>>, keys |-> <<>>, items |-> elems]

JDict(ks, vals) == [k |-> "dict", s |-> <<>>, keys |-> ks, items |-> vals]

PagesKey == <<"p", "a", "g", "e", "s">>

NavigationKey == <<"n", "a", "v", "i", "g", "a", "t", "i", "o", "n">>

\* key in d
HasKey(d, key) == \E i \in 1..Len(d.keys) : d.keys[i] = key

\* d[key]
GetKey(d, key) == d.items[CHOOSE i \in 1..Len(d.keys) : d.keys[i] = key]

\* what `for page in v` can iterate: a list, the characters of a str, the keys
\* of a dict; iterating None or a number raises TypeError
Iterable(v) == v.k \in {"list", "str", "dict"}

IterItems(v) ==
    IF v.k = "list" THEN v.items
    ELSE IF v.k = "str" THEN [i \in 1..Len(v.s) |-> JStr(<<v.s[i]>>)]
    ELSE IF v.k = "dict" THEN [i \in 1..Len(v.keys) |-> JStr(v.keys[i])]
    ELSE <<>>

\* mapping.get(key, key)
MappingGet(mapping, key) ==
    IF key \in DOMAIN mapping THEN mapping[key] ELSE key

(***************************************************************************)
(* The tree walker                                                         *)
(***************************************************************************)
RECURSIVE extract_all_pages(_), ExtractPagesLoop(_), ExtractKeysLoop(_, _),
          ExtractListLoop(_)
\* lines 97-101: the loop over nav_obj['pages']
ExtractPagesLoop(elems) ==
    IF elems = <<>> THEN <<>>
    ELSE LET page == Head(elems)
             here == IF page.k = "str" THEN <<page.s>>
                     ELSE IF page.k = "dict" THEN extract_all_pages(page)
                     ELSE <<>>
         IN  here \o ExtractPagesLoop(Tail(elems))

\* lines 102-104: the loop over the other keys, from the i-th on
ExtractKeysLoop(d, i) ==
    IF i > Len(d.keys) THEN <<>>
    ELSE (IF d.keys[i] # PagesKey THEN extract_all_pages(d.items[i]) ELSE <<>>)
         \o ExtractKeysLoop(d, i + 1)

\* lines 106-107
ExtractListLoop(elems) ==
    IF elems = <<>> THEN <<>>
    ELSE extract_all_pages(Head(elems)) \o ExtractListLoop(Tail(elems))

extract_all_pages(nav_obj) ==
    IF nav_obj.k = "dict"
    THEN (IF HasKey(nav_obj, PagesKey)
          THEN ExtractPagesLoop(IterItems(GetKey(nav_obj, PagesKey)))
          ELSE <<>>)
         \o ExtractKeysLoop(nav_obj, 1)
    ELSE IF nav_obj.k = "list" THEN ExtractListLoop(nav_obj.items)
    ELSE <<>>

\* extract_all_pages raises TypeError: some `pages` it reaches is not iterable
RECURSIVE ExtractRaises(_)
ExtractRaises(nav_obj) ==
    IF nav_obj.k = "dict"
    THEN \/ /\ HasKey(nav_obj, PagesKey)
            /\ LET pv == GetKey(nav_obj, PagesKey)
               IN  \/ ~Iterable(pv)
                   \/ \E i \in 1..Len(IterItems(pv)) :
                          /\ IterItems(pv)[i].k = "dict"
                          /\ ExtractRaises(IterItems(pv)[i])
         \/ \E i \in 1..Len(nav_obj.keys) :
                /\ nav_obj.keys[i] # PagesKey
                /\ ExtractRaises(nav_obj.items[i])
    ELSE IF nav_obj.k = "list"
    THEN \E i \in 1..Len(nav_obj.items) : ExtractRaises(nav_obj.items[i])
    ELSE FALSE

\* update_nav_structure that leaves the strings of a `pages` list as they are
RECURSIVE update_nav_structure_keep_pages(_, _)
update_nav_structure_keep_pages(nav_obj, mapping) ==
    LET Item(v) == IF v.k = "str" THEN JStr(MappingGet(mapping, v.s))
                   ELSE update_nav_structure_keep_pages(v, mapping)
        Page(v) == IF v.k = "str" THEN v
                   ELSE update_nav_structure_keep_pages(v, mapping)
    IN  IF nav_obj.k = "dict"
        THEN JDict(nav_obj.keys,
                   [i \in 1..Len(nav_obj.keys) |->
                       IF nav_obj.keys[i] = PagesKey
                       THEN LET its == IterItems(nav_obj.items[i])
                            IN  JList([j \in 1..Len(its) |-> Page(its[j])])
                       ELSE update_nav_structure_keep_pages(nav_obj.items[i],
                                                            mapping)])
        ELSE IF nav_obj.k = "list"
        THEN JList([j \in 1..Len(nav_obj.items) |-> Item(nav_obj.items[j])])
        ELSE nav_obj

RECURSIVE update_nav_structure(_, _)
update_nav_structure(nav_obj, mapping) ==
    LET Item(v) == IF v.k = "str" THEN JStr(MappingGet(mapping, v.s))
                   ELSE update_nav_structure(v, mapping)
    IN  IF nav_obj.k = "dict"
        THEN JDict(nav_obj.keys,
                   [i \in 1..Len(nav_obj.keys) |->
                       IF nav_obj.keys[i] = PagesKey
                       THEN LET its == IterItems(nav_obj.items[i])
                            IN  JList([j \in 1..Len(its) |-> Item(its[j])])
                       ELSE update_nav_structure(nav_obj.items[i], mapping)])
        ELSE IF nav_obj.k = "list"
        THEN JList([j \in 1..Len(nav_obj.items) |-> Item(nav_obj.items[j])])
        ELSE nav_obj

\* update_nav_structure raises TypeError: some `pages` it reaches is not
\* iterable
RECURSIVE UpdateRaises(_)
UpdateRaises(nav_obj) ==
    LET ItemRaises(v) == v.k # "str" /\ UpdateRaises(v)
    IN  IF nav_obj.k = "dict"
        THEN \E i \in 1..Len(nav_obj.keys) :
                 IF nav_obj.keys[i] = PagesKey
                 THEN \/ ~Iterable(nav_obj.items[i])
                      \/ \E j \in 1..Len(IterItems(nav_obj.items[i])) :
                             ItemRaises(IterItems(nav_obj.items[i])[j])
                 ELSE UpdateRaises(nav_obj.items[i])
        ELSE IF nav_obj.k = "list"
        THEN \E j \in 1..Len(nav_obj.items) : ItemRaises(nav_obj.items[j])
        ELSE FALSE

(***************************************************************************)
(* The filesystem under base_path                                          *)
(***************************************************************************)
MdxExt == <<".", "m", "d", "x">>

RECURSIVE DropEmptyAndDot(_)
DropEmptyAndDot(parts) ==
    IF parts = <<>> THEN <<>>
    ELSE IF Head(parts) = <<>> \/ Head(parts) = <<".">>
         THEN DropEmptyAndDot(Tail(parts))
         ELSE <<Head(parts)>> \o DropEmptyAndDot(Tail(parts))

\* self.base_path / (path_str + '.mdx'): pathlib drops empty and "."
\* components; the result is the sequence of components below base_path
MdxFile(path_str) == DropEmptyAndDot(Split(path_str \o MdxExt))

\* Path.parent
Parent(fp) == SubSeq(fp, 1, Len(fp) - 1)

\* the directories parent.mkdir(parents=True, exist_ok=True) makes sure of
ParentDirs(fp) == {SubSeq(fp, 1, n) : n \in 1..(Len(fp) - 1)}

\* the move without the exists() test: a missing source leaves an empty
\* destination file
RenameFile_no_exists_test(fs, old_path_str, new_path_str) ==
    LET old_file == MdxFile(old_path_str)
        new_file_path == MdxFile(new_path_str)
    IN  [f \in (DOMAIN fs \ {old_file}) \cup {new_file_path} |->
            IF f = new_file_path
            THEN (IF old_file \in DOMAIN fs THEN fs[old_file] ELSE <<>>)
            ELSE fs[f]]

\* lines 47-56: one iteration of the loop of rename_files_and_folders
RenameFile(fs, old_path_str, new_path_str) ==
    LET old_file == MdxFile(old_path_str)
        new_file_path == MdxFile(new_path_str)
    IN  IF old_file \in DOMAIN fs
        THEN [f \in (DOMAIN fs \ {old_file}) \cup {new_file_path} |->
                 IF f = new_file_path THEN fs[old_file] ELSE fs[f]]
        ELSE fs

\* the mkdir done before the exists() test
MakeParents_before_test(fs, ds, old_path_str, new_path_str) ==
    ds \cup ParentDirs(MdxFile(new_path_str))

\* line 52: the directories after one iteration of the loop
MakeParents(fs, ds, old_path_str, new_path_str) ==
    IF MdxFile(old_path_str) \in DOMAIN fs
    THEN ds \cup ParentDirs(MdxFile(new_path_str))
    ELSE ds

\* not any(directory.iterdir())
DirIsEmpty(d, fs, ds) ==
    /\ \A f \in DOMAIN fs : Parent(f) # d
    /\ \A e \in ds : Parent(e) # d

MaxOf(S) == IF S = {} THEN 0 ELSE CHOOSE x \in S : \A y \in S : y <= x

\* the sweep that stops at the first directory it removes at each depth
RECURSIVE SweepFrom_one_per_depth(_, _, _)
SweepFrom_one_per_depth(depth, fs, ds) ==
    IF depth = 0 THEN ds
    ELSE LET empty == {d \in ds : Len(d) = depth /\ DirIsEmpty(d, fs, ds)}
             gone == IF empty = {} THEN {}
                     ELSE {CHOOSE d \in empty :
                               \A e \in empty \ {d} : StrLess(Join(d), Join(e))}
         IN  SweepFrom_one_per_depth(depth - 1, fs, ds \ gone)

\* the sweep over all_dirs sorted shallowest first
RECURSIVE SweepFrom_shallow_first(_, _, _)
SweepFrom_shallow_first(depth, fs, ds) ==
    IF depth = 0 THEN ds
    ELSE LET rest == SweepFrom_shallow_first(depth - 1, fs, ds)
         IN  rest \ {d \in rest : Len(d) = depth /\ DirIsEmpty(d, fs, rest)}

\* lines 67-73 over the directories of `depth` components and less: all_dirs is
\* sorted deepest first, and directories of the same depth are not each other's
\* children
RECURSIVE SweepFrom(_, _, _)
SweepFrom(depth, fs, ds) ==
    IF depth = 0 THEN ds
    ELSE SweepFrom(depth - 1, fs,
                   ds \ {d \in ds : Len(d) = depth /\ DirIsEmpty(d, fs, ds)})

cleanup_empty_directories(fs, ds) ==
    SweepFrom(MaxOf({Len(d) : d \in ds}), fs, ds)

(***************************************************************************)
(* Mapping, sorting, report                                                *)
(***************************************************************************)
\* sorted(keys)
RECURSIVE SortedKeys(_)
SortedKeys(S) ==
    IF S = {} THEN <<>>
    ELSE LET m == CHOOSE x \in S : \A y \in S \ {x} : StrLess(x, y)
         IN  <<m>> \o SortedKeys(S \ {m})

\* sorted(self.path_mapping.items()): keys are unique, so the pairs are
\* ordered by key
SortedItems(mapping) ==
    LET ks == SortedKeys(DOMAIN mapping)
    IN  [i \in 1..Len(ks) |-> <<ks[i], mapping[ks[i]]>>]

\* the loop that returns after its first page
BuildLoop_first_page(mapping, pgs) ==
    IF pgs = <<>> THEN mapping
    ELSE LET old_path == Head(pgs)
             new_path == convert_path(old_path)
         IN  IF old_path # new_path
             THEN [p \in DOMAIN mapping \cup {old_path} |->
                      IF p = old_path THEN new_path ELSE mapping[p]]
             ELSE mapping

\* the loop without the test of line 84
RECURSIVE BuildLoop_keep_equal(_, _)
BuildLoop_keep_equal(mapping, pgs) ==
    IF pgs = <<>> THEN mapping
    ELSE LET old_path == Head(pgs)
             new_path == convert_path(old_path)
             next == [p \in DOMAIN mapping \cup {old_path} |->
                         IF p = old_path THEN new_path ELSE mapping[p]]
         IN  BuildLoop_keep_equal(next, Tail(pgs))

\* lines 82-85, over the pages from the first on
RECURSIVE BuildLoop(_, _)
BuildLoop(mapping, pgs) ==
    IF pgs = <<>> THEN mapping
    ELSE LET old_path == Head(pgs)
             new_path == convert_path(old_path)
             next == IF old_path # new_path
                     THEN [p \in DOMAIN mapping \cup {old_path} |->
                              IF p = old_path THEN new_path ELSE mapping[p]]
                     ELSE mapping
         IN  BuildLoop(next, Tail(pgs))

\* the report without the last pair
ReportOf_drop_last(mapping) ==
    LET its == SortedItems(mapping)
    IN  [written |-> TRUE,
         total_changes |-> Cardinality(DOMAIN mapping),
         changes |-> [i \in 1..(Len(its) - 1) |->
                         [source |-> <<"/">> \o its[i][1],
                          destination |-> <<"/">> \o its[i][2]]]]

\* the report in decreasing order of the old path
ReportOf_reversed(mapping) ==
    LET its == SortedItems(mapping)
        n == Len(its)
    IN  [written |-> TRUE,
         total_changes |-> Cardinality(DOMAIN mapping),
         changes |-> [i \in 1..n |->
                         [source |-> <<"/">> \o its[n + 1 - i][1],
                          destination |-> <<"/">> \o its[n + 1 - i][2]]]]

\* lines 146-155
ReportOf(mapping) ==
    LET its == SortedItems(mapping)
    IN  [written |-> TRUE,
         total_changes |-> Cardinality(DOMAIN mapping),
         changes |-> [i \in 1..Len(its) |->
                         [source |-> <<"/">> \o its[i][1],
                          destination |-> <<"/">> \o its[i][2]]]]

\* a document holding the new value and nothing else
SetKey_only_key(d, key, value) == JDict(<<key>>, <<value>>)

\* docs['navigation'] = value
SetKey(d, key, value) ==
    JDict(d.keys, [i \in 1..Len(d.keys) |->
                      IF d.keys[i] = key THEN value ELSE d.items[i]])

(***************************************************************************)
(* The manifests and content trees the model starts from                   *)
(***************************************************************************)
Id1 == <<"9", "k", "N", "y", "H", "J", "3", "U", "e", "Z", "k", "J", "c", "8",
         "Z", "6", "J", "u", "y", "p", "B", "S">>

Id2 == <<"s", "i", "8", "4", "F", "e", "K", "z", "F", "R", "r", "G", "L", "6",
         "u", "5", "3", "c", "k", "C", "Q", "U">>

Intro == <<"i", "n", "t", "r", "o">>

Guide == <<"g", "u", "i", "d", "e">>

Setup == <<"s", "e", "t", "u", "p">>

GroupKey == <<"g", "r", "o", "u", "p">>

TabsKey == <<"t", "a", "b", "s">>

NameKey == <<"n", "a", "m", "e">>

GuideId1Setup == Join(<<Guide, Id1, Setup>>)

GuideId2Setup == Join(<<Guide, Id2, Setup>>)

GuideSetup == Join(<<Guide, Setup>>)

Paths == {Intro, GuideId1Setup, GuideId2Setup, GuideSetup, Id1}

\* a group: {"group": "intro", "pages": [...]}
Group(elems) == JDict(<<GroupKey, PagesKey>>, <<JStr(Intro), JList(elems)>>)

\* what a `pages` list or another list may hold
Items ==
    {JStr(p) : p \in Paths}
    \cup {JNull, JNum,
          JList(<<JStr(GuideId1Setup)>>),
          Group(<<JStr(GuideId2Setup)>>),
          JList(<<JDict(<<PagesKey>>, <<JNull>>)>>)}

\* what a `pages` field may hold besides a list of items
OddPages ==
    {JNull, JNum, JStr(Intro), JDict(<<GuideId1Setup>>, <<JNum>>)}

\* {"pages": [x, y]}, [{"group": "intro", "pages": [x]}, y] and
\* {"tabs": [x], "pages": v}
NavTrees ==
    {JDict(<<PagesKey>>, <<JList(<<x, y>>)>>) : x \in Items, y \in Items}
    \cup {JList(<<Group(<<x>>), y>>) :
             x \in Items, y \in {JStr(GuideId1Setup), JNum}}
    \cup {JDict(<<TabsKey, PagesKey>>, <<JList(<<x>>), v>>) :
             x \in {JStr(Intro), Group(<<JStr(GuideId2Setup)>>)},
             v \in OddPages \cup {JList(<<JStr(GuideSetup)>>)}}

\* a docs.json that json.load rejects
JInvalid == [k |-> "invalid", s |-> <<>>, keys |-> <<>>, items |-> <<>>]

\* json.load raises, or docs['navigation'] raises KeyError or TypeError
Malformed(d) == d.k # "dict" \/ ~HasKey(d, NavigationKey)

\* the documents docs.json may hold:
\* {"name": "guide", "navigation": nav, "pages": ["guide/9kN.../setup"]},
\* {"name": "guide"} and unparsable text
Manifests ==
    {JDict(<<NameKey, NavigationKey, PagesKey>>,
           <<JStr(Guide), nav, JList(<<JStr(GuideId1Setup)>>)>>) :
        nav \in NavTrees}
    \cup {JDict(<<NameKey>>, <<JStr(Guide)>>), JInvalid}

Drafts == <<"d", "r", "a", "f", "t", "s">>

Old == <<"o", "l", "d">>

\* directories without any file that may lie under base_path: none, or
\* drafts/ holding only the empty drafts/old/
EmptyDirSets == {{}, {<<Drafts>>, <<Drafts, Old>>}}

MaxRuns == 2

(***************************************************************************)
(* State                                                                   *)
(***************************************************************************)
VARIABLES
    pc,            \* where run() is: start, relocate, cleanup, update,
                   \* report, done; raised (TypeError), killed (interrupted)
    run,           \* the number of the process, 1..MaxRuns
    docs,          \* the document in docs.json
    docs_format,   \* how docs.json is laid out: "hand" or "indent2"
    files,         \* content file (components below base_path) -> contents;
                   \* the contents of a file are named by where it first was
    dirs,          \* the directories below base_path
    path_mapping,  \* self.path_mapping
    idx,           \* the pairs of sorted(path_mapping.items()) already visited
    report,        \* id_removal_report.json
    console,       \* the "Moved file" lines printed, by all processes
    exits,         \* how the earlier processes ended
    begin,         \* docs, files and dirs when the current process started
    orig,          \* docs, files and dirs in the initial state
    call,          \* the function called on its own: none, is_id, convert,
                   \* extract, update
    arg,           \* its argument
    res,           \* what it returned
    redirects,     \* the list load_docs_json returned
    vpc,           \* where main() of validate_redirects is: main, loop,
                   \* returned, exit (no redirects), raised (uncaught error)
    vidx,          \* the entries of redirects the loop is done with
    results,       \* self.results of the RedirectValidator
    outcomes       \* what became of each entry met so far, in order

vars == <<pc, run, docs, docs_format, files, dirs, path_mapping, idx, report,
          console, exits, begin, orig, call, arg, res, redirects, vpc, vidx,
          results, outcomes>>

\* the variables of a run of the whole script
run_vars == <<pc, run, docs, docs_format, files, dirs, path_mapping, idx,
              report, console, exits, begin, orig>>

\* the variables of a call of one function
call_vars == <<call, arg, res>>

\* the variables of a run of validate_redirects
val_vars == <<redirects, vpc, vidx, results, outcomes>>

EmptyMapping == [p \in {} |-> <<>>]

NoReport == [written |-> FALSE, total_changes |-> 0, changes |-> <<>>]

\* no function is being called: no argument, no result
NoArg == [str |-> <<>>, nav_obj |-> JNull, mapping |-> EmptyMapping]

NoRes == [raised |-> FALSE, bool |-> FALSE, str |-> <<>>, pages |-> <<>>,
          nav |-> JNull]

\* validate_redirects.py lines 19-25
NoResults == [total |-> 0, passed |-> 0, failed |-> 0, errors |-> <<>>,
              failed_redirects |-> <<>>]

\* validate_redirects is not running
ValidatorIdle ==
    /\ redirects = <<>>
    /\ vpc = "idle"
    /\ vidx = 0
    /\ results = NoResults
    /\ outcomes = <<>>

Snapshot(d, fs, ds) == [docs |-> d, files |-> fs, dirs |-> ds]

Navigation == GetKey(docs, NavigationKey)

Init ==
    \E d \in Manifests, T \in SUBSET (Paths \ {Intro}), E \in EmptyDirSets :
        LET S  == T \cup {Intro}
            fs == [f \in {MdxFile(p) : p \in S} |-> f]
            ds == UNION {ParentDirs(f) : f \in DOMAIN fs} \cup E
        IN  /\ call = "none"
            /\ arg = NoArg
            /\ res = NoRes
            /\ pc = "start"
            /\ run = 1
            /\ docs = d
            /\ docs_format = "hand"
            /\ files = fs
            /\ dirs = ds
            /\ path_mapping = EmptyMapping
            /\ idx = 0
            /\ report = NoReport
            /\ console = <<>>
            /\ exits = <<>>
            /\ begin = Snapshot(d, fs, ds)
            /\ orig = Snapshot(d, fs, ds)
            /\ ValidatorIdle

(***************************************************************************)
(* The steps of run()                                                      *)
(***************************************************************************)
\* Step 1 going on with an empty mapping when the manifest cannot be used
build_path_mapping_lenient ==
    /\ pc = "start"
    /\ IF Malformed(docs)
       THEN /\ pc' = "relocate"
            /\ UNCHANGED path_mapping
       ELSE IF ExtractRaises(Navigation)
       THEN /\ pc' = "raised"
            /\ UNCHANGED path_mapping
       ELSE /\ pc' = "relocate"
            /\ path_mapping' =
                   BuildLoop(path_mapping, extract_all_pages(Navigation))
    /\ UNCHANGED <<run, docs, docs_format, files, dirs, idx, report, console,
                   exits, begin, orig>>
    /\ UNCHANGED call_vars
    /\ UNCHANGED val_vars

\* Step 1, lines 75-85: json.load or docs['navigation'] fails, or the walker
\* raises, or the mapping is built
build_path_mapping ==
    /\ pc = "start"
    /\ IF Malformed(docs)
       THEN /\ pc' = "failed"
            /\ UNCHANGED path_mapping
       ELSE IF ExtractRaises(Navigation)
       THEN /\ pc' = "raised"
            /\ UNCHANGED path_mapping
       ELSE /\ pc' = "relocate"
            /\ path_mapping' =
                   BuildLoop(path_mapping, extract_all_pages(Navigation))
    /\ UNCHANGED <<run, docs, docs_format, files, dirs, idx, report, console,
                   exits, begin, orig>>
    /\ UNCHANGED call_vars
    /\ UNCHANGED val_vars

\* Step 2, lines 46-56: the next pair of the loop
rename_one ==
    /\ pc = "relocate"
    /\ idx < Len(SortedItems(path_mapping))
    /\ LET pair == SortedItems(path_mapping)[idx + 1]
           moved == MdxFile(pair[1]) \in DOMAIN files
       IN  /\ files' = RenameFile(files, pair[1], pair[2])
           /\ dirs' = MakeParents(files, dirs, pair[1], pair[2])
           /\ console' = IF moved
                         THEN Append(console, [run |-> run, old |-> pair[1],
                                               new |-> pair[2]])
                         ELSE console
    /\ idx' = idx + 1
    /\ UNCHANGED <<pc, run, docs, docs_format, path_mapping, report, exits,
                   begin, orig>>
    /\ UNCHANGED call_vars
    /\ UNCHANGED val_vars

\* Step 2, line 59, once the loop is over
cleanup ==
    /\ pc = "relocate"
    /\ idx = Len(SortedItems(path_mapping))
    /\ dirs' = cleanup_empty_directories(files, dirs)
    /\ pc' = "update"
    /\ UNCHANGED <<run, docs, docs_format, files, path_mapping, idx, report,
                   console, exits, begin, orig>>
    /\ UNCHANGED call_vars
    /\ UNCHANGED val_vars

\* Step 3, lines 111-123
update_docs_json ==
    /\ pc = "update"
    /\ IF Malformed(docs)
       THEN /\ pc' = "failed"
            /\ UNCHANGED <<docs, docs_format>>
       ELSE IF UpdateRaises(Navigation)
       THEN /\ pc' = "raised"
            /\ UNCHANGED <<docs, docs_format>>
       ELSE /\ pc' = "report"
            /\ docs' = SetKey(docs, NavigationKey,
                              update_nav_structure(Navigation, path_mapping))
            /\ docs_format' = "indent2"
    /\ UNCHANGED <<run, files, dirs, path_mapping, idx, report, console,
                   exits, begin, orig>>
    /\ UNCHANGED call_vars
    /\ UNCHANGED val_vars

\* the report written as soon as the sweep is over, before step 3
generate_report_before_update ==
    /\ pc = "update"
    /\ report' = ReportOf(path_mapping)
    /\ pc' = "done"
    /\ UNCHANGED <<run, docs, docs_format, files, dirs, path_mapping, idx,
                   console, exits, begin, orig>>
    /\ UNCHANGED call_vars
    /\ UNCHANGED val_vars

\* Step 4, lines 144-162
generate_report ==
    /\ pc = "report"
    /\ report' = ReportOf(path_mapping)
    /\ pc' = "done"
    /\ UNCHANGED <<run, docs, docs_format, files, dirs, path_mapping, idx,
                   console, exits, begin, orig>>
    /\ UNCHANGED call_vars
    /\ UNCHANGED val_vars

\* the process is interrupted during relocation, between two file moves or
\* before the directory sweep
Interrupt ==
    /\ pc = "relocate"
    /\ run < MaxRuns
    /\ pc' = "killed"
    /\ UNCHANGED <<run, docs, docs_format, files, dirs, path_mapping, idx,
                   report, console, exits, begin, orig>>
    /\ UNCHANGED call_vars
    /\ UNCHANGED val_vars

\* lines 183-184 and 14-18: a new process, a new IDRemover
Rerun ==
    /\ pc \in {"done", "killed"}
    /\ run < MaxRuns
    /\ run' = run + 1
    /\ pc' = "start"
    /\ path_mapping' = EmptyMapping
    /\ idx' = 0
    /\ exits' = Append(exits, pc)
    /\ begin' = Snapshot(docs, files, dirs)
    /\ UNCHANGED <<docs, docs_format, files, dirs, report, console, orig>>
    /\ UNCHANGED call_vars
    /\ UNCHANGED val_vars

Next ==
    \/ build_path_mapping
    \/ rename_one
    \/ cleanup
    \/ update_docs_json
    \/ generate_report
    \/ Interrupt
    \/ Rerun

Spec == Init /\ [][Next]_vars

(***************************************************************************)
(* The functions called on their own                                       *)
(***************************************************************************)
MaxSegLen == 22

MaxParts == 3

\* n letters and digits
AlnumRun(n) == [i \in 1..n |-> Id1[((i - 1) % Len(Id1)) + 1]]

OtherChars == {"-", "_", ".", "\n"}

\* path components: letters and digits only, or with one other character at
\* the end, at the start or inside
TestSegments ==
    {AlnumRun(n) : n \in 0..MaxSegLen}
    \cup {AlnumRun(n) \o <<c>> : n \in 0..MaxSegLen, c \in OtherChars}
    \cup {<<c>> \o AlnumRun(n) : n \in 0..MaxSegLen, c \in OtherChars}
    \cup {AlnumRun(n) \o <<c, "a">> : n \in (IdMinLen - 1)..MaxSegLen,
                                       c \in OtherChars}

PathSegments ==
    {<<>>, Intro, Id1, Id2, Id1 \o <<"\n">>, AlnumRun(IdMinLen - 1)}

\* the paths of one to MaxParts components
TestPaths ==
    {Join(parts) : parts \in UNION {[1..n -> PathSegments] : n \in 1..MaxParts}}

\* the mappings update_nav_structure is called with
TestMappings ==
    {EmptyMapping} \cup {[q \in {p} |-> Drafts] : p \in Paths}

\* the exception leaves the call
Raised == [NoRes EXCEPT !.raised = TRUE]

IdleSnapshot == Snapshot(JInvalid, EmptyMapping, {})

CallsInit ==
    /\ call = "none"
    /\ arg = NoArg
    /\ res = NoRes
    /\ pc = "idle"
    /\ run = 0
    /\ docs = JInvalid
    /\ docs_format = "hand"
    /\ files = EmptyMapping
    /\ dirs = {}
    /\ path_mapping = EmptyMapping
    /\ idx = 0
    /\ report = NoReport
    /\ console = <<>>
    /\ exits = <<>>
    /\ begin = IdleSnapshot
    /\ orig = IdleSnapshot
    /\ ValidatorIdle

\* line 34: the identifier test on one component
CallIsId ==
    /\ call = "none"
    /\ \E part \in TestSegments :
           /\ arg' = [NoArg EXCEPT !.str = part]
           /\ res' = [NoRes EXCEPT !.bool = ReMatchIdPattern(part)]
    /\ call' = "is_id"
    /\ UNCHANGED run_vars
    /\ UNCHANGED val_vars

\* lines 87-89
CallConvertPath ==
    /\ call = "none"
    /\ \E path \in TestPaths :
           /\ arg' = [NoArg EXCEPT !.str = path]
           /\ res' = [NoRes EXCEPT !.str = convert_path(path)]
    /\ call' = "convert"
    /\ UNCHANGED run_vars
    /\ UNCHANGED val_vars

\* lines 91-109
CallExtractAllPages ==
    /\ call = "none"
    /\ \E nav_obj \in NavTrees :
           /\ arg' = [NoArg EXCEPT !.nav_obj = nav_obj]
           /\ res' = IF ExtractRaises(nav_obj) THEN Raised
                     ELSE [NoRes EXCEPT
                              !.pages = extract_all_pages(nav_obj)]
    /\ call' = "extract"
    /\ UNCHANGED run_vars
    /\ UNCHANGED val_vars

\* lines 125-142
CallUpdateNavStructure ==
    /\ call = "none"
    /\ \E nav_obj \in NavTrees, mapping \in TestMappings :
           /\ arg' = [NoArg EXCEPT !.nav_obj = nav_obj,
                                    !.mapping = mapping]
           /\ res' = IF UpdateRaises(nav_obj) THEN Raised
                     ELSE [NoRes EXCEPT
                              !.nav = update_nav_structure(nav_obj, mapping)]
    /\ call' = "update"
    /\ UNCHANGED run_vars
    /\ UNCHANGED val_vars

\* the call is over
Return ==
    /\ call # "none"
    /\ call' = "none"
    /\ arg' = NoArg
    /\ res' = NoRes
    /\ UNCHANGED run_vars
    /\ UNCHANGED val_vars

CallsNext ==
    \/ CallIsId
    \/ CallConvertPath
    \/ CallExtractAllPages
    \/ CallUpdateNavStructure
    \/ Return

CallsSpec == CallsInit /\ [][CallsNext]_vars

(***************************************************************************)
(* validate_redirects.py: RedirectValidator                                *)
(***************************************************************************)
MaxRedirects == 3

SourceKey == <<"s", "o", "u", "r", "c", "e">>

DestinationKey == <<"d", "e", "s", "t", "i", "n", "a", "t", "i", "o", "n">>

OldUrl == <<"/">> \o Old

IntroUrl == <<"/">> \o Intro

GuideUrl == <<"/">> \o Guide

\* dict.get(key): None when the key is missing
DictGet(d, key) == IF HasKey(d, key) THEN GetKey(d, key) ELSE JNull

\* the truth value of a JSON value in `not source`
Truthy(v) ==
    CASE v.k = "str" -> v.s # <<>>
      [] v.k = "null" -> FALSE
      [] v.k = "num" -> TRUE
      [] OTHER -> v.items # <<>>

\* str.rstrip("/")
RECURSIVE RStripSlash(_)
RStripSlash(str) ==
    IF str # <<>> /\ str[Len(str)] = "/"
    THEN RStripSlash(SubSeq(str, 1, Len(str) - 1))
    ELSE str

\* the entries the `redirects` list may hold: objects with and without the
\* two keys, with strings, empty strings, null and numbers as values, and a
\* string in the place of an object
RedirectEntries ==
    {JDict(<<SourceKey, DestinationKey>>, <<JStr(OldUrl), d>>) :
        d \in {JStr(IntroUrl), JStr(IntroUrl \o <<"/">>), JStr(<<>>), JNum}}
    \cup {JDict(<<SourceKey, DestinationKey>>, <<src, JStr(IntroUrl)>>) :
             src \in {JNull, JNum}}
    \cup {JDict(<<DestinationKey>>, <<JStr(IntroUrl)>>), JStr(OldUrl)}

\* what session.get does: a response, with or without redirect history and
\* with the path of its final URL, or one of the exceptions of requests
Response(history, path, code) ==
    [kind |-> "response", history |-> history, path |-> path,
     status_code |-> code]

Failure(kind) ==
    [kind |-> kind, history |-> FALSE, path |-> <<>>, status_code |-> 0]

Replies ==
    {Response(TRUE, IntroUrl, 200), Response(TRUE, GuideUrl \o <<"/">>, 200),
     Response(FALSE, OldUrl, 404),
     Failure("Timeout"), Failure("ConnectionError"),
     Failure("RequestException")}

\* lines 52-59
NoResult ==
    [source |-> JNull, destination |-> JNull, status |-> "unknown",
     error |-> "None", status_code |-> 0]

\* urljoin raises TypeError on a source that is no string (line 50);
\* destination.rstrip raises AttributeError on a destination that is no
\* string, once there is a redirect to compare with (line 82)
CheckRaises(source, destination, reply) ==
    \/ source.k # "str"
    \/ /\ reply.kind = "response"
       /\ reply.history
       /\ destination.k # "str"

\* lines 43-107, when nothing is raised out of it
check_redirect(source, destination, reply) ==
    LET result == [NoResult EXCEPT !.source = source,
                                   !.destination = destination]
    IN  IF reply.kind # "response"
        THEN [result EXCEPT !.status = "error", !.error = reply.kind]
        ELSE IF ~reply.history
        THEN [result EXCEPT !.status = "failed", !.error = "No redirect",
                            !.status_code = reply.status_code]
        ELSE IF RStripSlash(destination.s) = RStripSlash(reply.path)
        THEN [result EXCEPT !.status = "passed",
                            !.status_code = reply.status_code]
        ELSE [result EXCEPT !.status = "failed", !.error = "Expected",
                            !.status_code = reply.status_code]

\* the counting that leaves an "error" result out of failed_redirects
Count_error_not_recorded(rs, result) ==
    IF result.status = "passed"
    THEN [rs EXCEPT !.passed = @ + 1]
    ELSE IF result.status = "failed"
    THEN [rs EXCEPT !.failed = @ + 1,
                    !.failed_redirects = Append(@, result)]
    ELSE [rs EXCEPT !.failed = @ + 1]

\* lines 139-149
Count(rs, result) ==
    IF result.status = "passed"
    THEN [rs EXCEPT !.passed = @ + 1]
    ELSE IF result.status = "failed"
    THEN [rs EXCEPT !.failed = @ + 1,
                    !.failed_redirects = Append(@, result)]
    ELSE [rs EXCEPT !.failed = @ + 1,
                    !.failed_redirects = Append(@, result)]

Outcome(status, result) == [status |-> status, result |-> result]

\* a new process: a new RedirectValidator, and the list load_docs_json gives
ValidateInit ==
    /\ \E n \in 0..MaxRedirects : redirects \in [1..n -> RedirectEntries]
    /\ vpc = "main"
    /\ vidx = 0
    /\ results = NoResults
    /\ outcomes = <<>>
    /\ call = "none"
    /\ arg = NoArg
    /\ res = NoRes
    /\ pc = "idle"
    /\ run = 0
    /\ docs = JInvalid
    /\ docs_format = "hand"
    /\ files = EmptyMapping
    /\ dirs = {}
    /\ path_mapping = EmptyMapping
    /\ idx = 0
    /\ report = NoReport
    /\ console = <<>>
    /\ exits = <<>>
    /\ begin = IdleSnapshot
    /\ orig = IdleSnapshot

\* main(), lines 209-216, and validate_all up to its loop, lines 117-120
validate_all_begin ==
    /\ vpc = "main"
    /\ IF redirects = <<>>
       THEN /\ vpc' = "exit"
            /\ UNCHANGED results
       ELSE /\ vpc' = "loop"
            /\ results' = [results EXCEPT !.total = Len(redirects)]
    /\ UNCHANGED <<redirects, vidx, outcomes>>
    /\ UNCHANGED run_vars
    /\ UNCHANGED call_vars

\* lines 122-153: one iteration of the loop
validate_one ==
    /\ vpc = "loop"
    /\ vidx < Len(redirects)
    /\ LET redirect == redirects[vidx + 1]
       IN  IF redirect.k # "dict"
           THEN /\ vpc' = "raised"
                /\ UNCHANGED <<vidx, results, outcomes>>
           ELSE LET source == DictGet(redirect, SourceKey)
                    destination == DictGet(redirect, DestinationKey)
                IN  IF ~Truthy(source) \/ ~Truthy(destination)
                    THEN /\ vidx' = vidx + 1
                         /\ outcomes' =
                                Append(outcomes, Outcome("skipped", NoResult))
                         /\ UNCHANGED <<vpc, results>>
                    ELSE \E reply \in Replies :
                             IF CheckRaises(source, destination, reply)
                             THEN /\ vpc' = "raised"
                                  /\ UNCHANGED <<vidx, results, outcomes>>
                             ELSE LET result == check_redirect(source,
                                                    destination, reply)
                                  IN  /\ results' = Count(results, result)
                                      /\ outcomes' = Append(outcomes,
                                             Outcome(result.status, result))
                                      /\ vidx' = vidx + 1
                                      /\ UNCHANGED vpc
    /\ UNCHANGED redirects
    /\ UNCHANGED run_vars
    /\ UNCHANGED call_vars

\* line 155
validate_all_return ==
    /\ vpc = "loop"
    /\ vidx = Len(redirects)
    /\ vpc' = "returned"
    /\ UNCHANGED <<redirects, vidx, results, outcomes>>
    /\ UNCHANGED run_vars
    /\ UNCHANGED call_vars

ValidateNext ==
    \/ validate_all_begin
    \/ validate_one
    \/ validate_all_return

ValidateSpec == ValidateInit /\ [][ValidateNext]_vars

(***************************************************************************)
(* Notions the properties use                                              *)
(***************************************************************************)
\* the page paths of a document: what extract_all_pages yields
PageRefs(d) == Range(extract_all_pages(GetKey(d, NavigationKey)))

\* every page path has its content file
AllBacked(d, fs) == \A p \in PageRefs(d) : MdxFile(p) \in DOMAIN fs

\* some component of the path matches the identifier pattern
HasIdSegment(p) ==
    \E i \in 1..Len(Split(p)) : ReMatchIdPattern(Split(p)[i])

\* the pairs whose file the current process moved ("Moved file" was printed)
MovedNow ==
    {console[i].old : i \in {j \in 1..Len(console) : console[j].run = run}}

\* the pairs whose file an earlier process moved
MovedBefore ==
    {console[i].old : i \in {j \in 1..Len(console) : console[j].run < run}}

\* every earlier process was interrupted during relocation
OnlyInterrupted ==
    /\ exits # <<>>
    /\ \A i \in 1..Len(exits) : exits[i] = "killed"

\* the mapping build_path_mapping gives for a document
MappingOf(d) ==
    BuildLoop(EmptyMapping, extract_all_pages(GetKey(d, NavigationKey)))

\* the loop of rename_files_and_folders run without interruption
RECURSIVE RenameAll(_, _)
RenameAll(fs, its) ==
    IF its = <<>> THEN fs
    ELSE RenameAll(RenameFile(fs, Head(its)[1], Head(its)[2]), Tail(its))

(***************************************************************************)
(* C1 - C10                                                                *)
(***************************************************************************)
\* C1: when every page path of the manifest had its content file as the run
\* started, then after the complete run every page path of the rewritten
\* manifest has its content file.
C1_NoDivergence ==
    (pc = "done" /\ AllBacked(begin.docs, begin.files))
        => AllBacked(docs, files)

C1_Witness ==
    /\ pc = "done"
    /\ AllBacked(begin.docs, begin.files)
    /\ Cardinality(MovedNow) >= 2
    /\ docs # begin.docs

\* C2: once the navigation is rewritten with the mapping built from it,
\* extract_all_pages yields no path with an identifier segment.
C2_OnlyCanonicalLeaves ==
    pc \in {"report", "done"} => \A p \in PageRefs(docs) : ~HasIdSegment(p)

C2_Witness ==
    /\ pc = "report"
    /\ Cardinality({p \in PageRefs(begin.docs) : HasIdSegment(p)}) >= 2

\* C3 (as claimed): after relocation, every pair whose source file existed
\* when the run started has its destination file holding the contents of the
\* source, under existing parent directories, and its source is gone,
\* whatever the other pairs are.
C3_EveryPairRelocated ==
    pc = "update" =>
        \A old \in DOMAIN path_mapping :
            MdxFile(old) \in DOMAIN begin.files =>
                LET new_file == MdxFile(path_mapping[old])
                IN  /\ new_file \in DOMAIN files
                    /\ files[new_file] = begin.files[MdxFile(old)]
                    /\ ParentDirs(new_file) \subseteq dirs
                    /\ MdxFile(old) \notin DOMAIN files

\* C4: a run on the output of a completed run changes neither the content
\* files, nor the directories, nor the manifest, and its mapping stays empty.
C4_RerunIsNoOp ==
    [][(exits # <<>> /\ exits[Len(exits)] = "done")
          => /\ files' = files
             /\ dirs' = dirs
             /\ docs' = docs
             /\ docs_format' = docs_format
             /\ path_mapping' = EmptyMapping]_vars

C4_Witness ==
    /\ pc = "done"
    /\ exits # <<>>
    /\ exits[Len(exits)] = "done"
    /\ MovedBefore # {}
    /\ orig.docs # docs
    /\ orig.dirs # dirs

\* C5: while only interrupted runs came before, the manifest on disk is the
\* original one until the current run rewrites it, the mapping rebuilt is the
\* original one, and the run that completes ends with the manifest and the
\* content files (paths and contents) of an uninterrupted run from the
\* original state.
C5_PartialRunRecovery ==
    OnlyInterrupted =>
        /\ pc \in {"start", "relocate", "killed", "update"}
               => docs = orig.docs
        /\ pc \in {"relocate", "killed", "update"}
               => path_mapping = MappingOf(orig.docs)
        /\ pc = "done" =>
               /\ docs = SetKey(orig.docs, NavigationKey,
                      update_nav_structure(GetKey(orig.docs, NavigationKey),
                                           MappingOf(orig.docs)))
               /\ files = RenameAll(orig.files,
                                    SortedItems(MappingOf(orig.docs)))

C5_Witness ==
    /\ pc = "done"
    /\ OnlyInterrupted
    /\ MovedBefore # {}
    /\ MovedNow # {}
    /\ \E old \in MovedBefore : MdxFile(old) \in DOMAIN orig.files

\* C6: visiting a pair whose source file is missing moves nothing, creates no
\* directory and leaves the loop running; and update_docs_json turns every
\* page path that is a key of the mapping into its value, moved or not.
C6_MissingSourceSkipped ==
    [][/\ (/\ pc = "relocate"
           /\ idx' = idx + 1
           /\ MdxFile(SortedItems(path_mapping)[idx + 1][1])
                  \notin DOMAIN files)
          => (files' = files /\ dirs' = dirs /\ pc' = "relocate")
       /\ (pc = "update" /\ pc' = "report")
          => LET before == extract_all_pages(Navigation)
                 after == extract_all_pages(GetKey(docs', NavigationKey))
             IN  after = [i \in 1..Len(before) |->
                             MappingGet(path_mapping, before[i])]]_vars

C6_Witness ==
    /\ pc = "report"
    /\ \E old \in DOMAIN path_mapping :
           /\ old \notin MovedNow
           /\ old \in PageRefs(begin.docs)
           /\ old \notin PageRefs(docs)
           /\ path_mapping[old] \in PageRefs(docs)
           /\ MdxFile(path_mapping[old]) \notin DOMAIN files
    /\ MovedNow # {}

\* C7 (as claimed): the report holds an entry for a pair only if the file of
\* that pair was moved.
C7_ReportOnlyMoved ==
    pc = "done" =>
        \A i \in 1..Len(report.changes) :
            \E old \in MovedNow : report.changes[i].source = <<"/">> \o old

\* C7 (amended): a pair that the relocator skipped because its source file
\* was missing has its entry in the report all the same.
C7_SkippedStillReported ==
    pc = "done" =>
        \A old \in DOMAIN path_mapping \ MovedNow :
            \E i \in 1..Len(report.changes) :
                report.changes[i] =
                    [source |-> <<"/">> \o old,
                     destination |-> <<"/">> \o path_mapping[old]]

C7_Witness ==
    /\ pc = "done"
    /\ DOMAIN path_mapping \ MovedNow # {}
    /\ MovedNow # {}

\* C8: total_changes is the size of the mapping and the length of changes;
\* changes holds one record per mapping entry, "/" before both paths, in
\* increasing order of the old path, the order in which the relocator moved
\* the files.
C8_ReportFromWholeMapping ==
    pc = "done" =>
        LET ch == report.changes
            now == SelectSeq(console, LAMBDA e : e.run = run)
        IN  /\ report.written
            /\ report.total_changes = Cardinality(DOMAIN path_mapping)
            /\ report.total_changes = Len(ch)
            /\ Range(ch) = {[source |-> <<"/">> \o old,
                             destination |-> <<"/">> \o path_mapping[old]] :
                                old \in DOMAIN path_mapping}
            /\ \A i \in 1..Len(ch) : \A j \in (i + 1)..Len(ch) :
                   StrLess(Tail(ch[i].source), Tail(ch[j].source))
            /\ \A a \in 1..Len(now) : \A b \in (a + 1)..Len(now) :
                   \E i \in 1..Len(ch) : \E j \in (i + 1)..Len(ch) :
                       /\ ch[i].source = <<"/">> \o now[a].old
                       /\ ch[j].source = <<"/">> \o now[b].old

C8_Witness ==
    /\ pc = "done"
    /\ Len(report.changes) >= 2
    /\ Cardinality(MovedNow) >= 2

\* C9 (as claimed): the walker never raises, whatever number or null the
\* navigation holds in the place of a string or of a structure.
C9_WalkerNeverRaises == pc # "raised"

\* C10 (as claimed): the tree update_nav_structure returns has the shape of
\* its argument; a string that is a list item is replaced by its mapping
\* value when it is a key; every other string and scalar is unchanged.
RECURSIVE IsRewriteOf(_, _, _)
IsRewriteOf(a, b, mapping) ==
    /\ b.k = a.k
    /\ b.keys = a.keys
    /\ Len(b.items) = Len(a.items)
    /\ IF a.k = "str"
       THEN b.s = a.s
       ELSE \A i \in 1..Len(a.items) :
                IF a.items[i].k = "str" /\ a.k = "list"
                THEN /\ b.items[i].k = "str"
                     /\ b.items[i].s = MappingGet(mapping, a.items[i].s)
                ELSE IsRewriteOf(a.items[i], b.items[i], mapping)

C10_SameShapeRewrite ==
    [][(pc = "update" /\ pc' = "report")
          => IsRewriteOf(Navigation, GetKey(docs', NavigationKey),
                         path_mapping)]_vars

(***************************************************************************)
(* C11 - C20                                                               *)
(***************************************************************************)
\* the strings extract_all_pages collects, in the order of the document: the
\* keys of an object in their order, `pages` in its place among them
RECURSIVE LeavesInDocumentOrder(_), LeavesOfEach(_, _, _)
LeavesOfEach(elems, i, in_pages) ==
    IF i > Len(elems) THEN <<>>
    ELSE (IF in_pages /\ elems[i].k = "str" THEN <<elems[i].s>>
          ELSE IF in_pages /\ elems[i].k # "dict" THEN <<>>
          ELSE LeavesInDocumentOrder(elems[i]))
         \o LeavesOfEach(elems, i + 1, in_pages)

RECURSIVE LeavesOfKeys(_, _)
LeavesOfKeys(d, i) ==
    IF i > Len(d.keys) THEN <<>>
    ELSE (IF d.keys[i] = PagesKey
          THEN LeavesOfEach(IterItems(d.items[i]), 1, TRUE)
          ELSE LeavesInDocumentOrder(d.items[i]))
         \o LeavesOfKeys(d, i + 1)

LeavesInDocumentOrder(node) ==
    IF node.k = "dict" THEN LeavesOfKeys(node, 1)
    ELSE IF node.k = "list" THEN LeavesOfEach(node.items, 1, FALSE)
    ELSE <<>>

\* C11 (as claimed): extract_all_pages yields the leaf paths in the order of
\* the document, also when groups are nested under other fields than `pages`.
C11_DocumentOrder ==
    (call = "extract" /\ ~res.raised)
        => res.pages = LeavesInDocumentOrder(arg.nav_obj)

\* the steps of a run after build_path_mapping has returned
AfterBuild == {"relocate", "killed", "update", "report", "done"}

\* C12: once build_path_mapping has returned, the keys of the mapping are the
\* leaves of the manifest that canonicalization changes and each value is the
\* canonical path of its key: no key equals its value, no key is free of
\* identifier segments, every key is a leaf of the manifest; a leaf free of
\* identifier segments is the source of no move, keeps its file and stays in
\* its place in the rewritten manifest.
C12_ExactMapping ==
    pc \in AfterBuild =>
        LET before == extract_all_pages(GetKey(begin.docs, NavigationKey))
            leaves == Range(before)
        IN  /\ DOMAIN path_mapping = {p \in leaves : convert_path(p) # p}
            /\ \A p \in DOMAIN path_mapping :
                   /\ path_mapping[p] = convert_path(p)
                   /\ path_mapping[p] # p
                   /\ HasIdSegment(p)
            /\ \A p \in leaves :
                   ~HasIdSegment(p) =>
                       /\ p \notin DOMAIN path_mapping
                       /\ p \notin MovedNow
                       /\ MdxFile(p) \in DOMAIN begin.files
                              => MdxFile(p) \in DOMAIN files
            /\ pc \in {"report", "done"} =>
                   LET after == extract_all_pages(Navigation)
                   IN  \A i \in 1..Len(before) :
                           ~HasIdSegment(before[i]) => after[i] = before[i]

C12_Witness ==
    /\ pc = "report"
    /\ LET before == extract_all_pages(GetKey(begin.docs, NavigationKey))
       IN  \E i \in 1..Len(before) : \E j \in (i + 1)..Len(before) :
               before[i] = before[j] /\ before[i] \in DOMAIN path_mapping
    /\ Cardinality(DOMAIN path_mapping) = 1
    /\ MovedNow # {}

\* C13: the manifest is written only once every pair has been visited and
\* the sweep has run; the report is written only once the manifest of the run
\* has been rewritten; files and directories change only during relocation,
\* while the manifest is still the one the run started with; the mapping
\* changes only in build_path_mapping, or when a new process starts.
C13_StrictlySequential ==
    [][/\ (docs' # docs \/ docs_format' # docs_format) =>
              /\ pc = "update"
              /\ idx = Len(SortedItems(path_mapping))
              /\ dirs = cleanup_empty_directories(files, dirs)
       /\ report' # report =>
              /\ pc = "report"
              /\ docs = SetKey(begin.docs, NavigationKey,
                     update_nav_structure(GetKey(begin.docs, NavigationKey),
                                          path_mapping))
              /\ docs_format = "indent2"
       /\ (files' # files \/ dirs' # dirs) =>
              /\ pc = "relocate"
              /\ docs = begin.docs
              /\ report = IF run = 1 THEN NoReport ELSE report
       /\ path_mapping' # path_mapping =>
              (pc = "start" \/ pc' = "start")]_vars

C13_Witness ==
    /\ pc = "done"
    /\ run = 1
    /\ report.written
    /\ report.total_changes >= 2
    /\ Cardinality(MovedNow) >= 2
    /\ docs # begin.docs
    /\ dirs # begin.dirs
    /\ path_mapping # EmptyMapping

\* C14: canonicalizing the result of extract_filename_without_id gives that
\* result again, also for paths with empty components and for paths made of
\* identifiers only.
C14_Idempotent ==
    call = "convert" =>
        /\ res.str = extract_filename_without_id(arg.str)
        /\ extract_filename_without_id(res.str) = res.str

C14_Witness ==
    /\ call = "convert"
    /\ LET parts == Split(arg.str)
       IN  /\ Len(parts) = 3
           /\ parts[2] = <<>>
           /\ ReMatchIdPattern(parts[1])
           /\ ReMatchIdPattern(parts[3])
    /\ res.str = <<>>

\* C15: with a manifest that is no JSON or has no `navigation` field the
\* run ends in build_path_mapping: no file is moved, no directory is created
\* or removed, the manifest and the report are not written.
C15_AbortBeforeMutation ==
    Malformed(orig.docs) =>
        /\ pc \in {"start", "failed"}
        /\ run = 1
        /\ idx = 0
        /\ path_mapping = EmptyMapping
        /\ files = orig.files
        /\ dirs = orig.dirs
        /\ docs = orig.docs
        /\ docs_format = "hand"
        /\ report = NoReport
        /\ console = <<>>

C15_Witness ==
    /\ pc = "failed"
    /\ ~HasKey(docs, NavigationKey)
    /\ MdxFile(GuideId1Setup) \in DOMAIN files
    /\ <<Drafts, Old>> \in dirs

\* C16: update_docs_json leaves the top-level keys of the manifest as they
\* are, in their order, and leaves the value of every key other than
\* `navigation` as it was read.
C16_OnlyNavigationChanges ==
    [][(pc = "update" /\ pc' = "report") =>
           /\ docs'.k = "dict"
           /\ docs'.keys = docs.keys
           /\ \A i \in 1..Len(docs.keys) :
                  docs.keys[i] # NavigationKey
                      => docs'.items[i] = docs.items[i]]_vars

C16_Witness ==
    /\ pc = "report"
    /\ docs # begin.docs
    /\ GuideId1Setup \in DOMAIN path_mapping
    /\ GetKey(docs, PagesKey) = JList(<<JStr(GuideId1Setup)>>)
    /\ GetKey(docs, NameKey) = JStr(Guide)

\* C17 (as claimed): the identifier test is true of a component exactly when
\* the component has 20 characters or more and all of them are letters or
\* digits.
C17_IdentifierTest ==
    call = "is_id" =>
        (res.bool <=> /\ Len(arg.str) >= IdMinLen
                      /\ \A i \in 1..Len(arg.str) : arg.str[i] \in AlNum)

\* C18: the sweep that ends rename_files_and_folders removes directories
\* only, leaves no directory without entry, removes exactly the directories
\* with no file anywhere beneath them, the parents of removed directories
\* included, and keeps every directory on the way from the root to a file.
C18_SweepRemovesEveryEmptyDir ==
    [][(pc = "relocate" /\ pc' = "update") =>
           /\ files' = files
           /\ dirs' \subseteq dirs
           /\ \A d \in dirs' : ~DirIsEmpty(d, files', dirs')
           /\ \A d \in dirs :
                  d \in dirs' <=> \E f \in DOMAIN files : d \in ParentDirs(f)
           /\ \A f \in DOMAIN files : ParentDirs(f) \subseteq dirs'
           /\ <<>> \notin dirs \ dirs']_vars

C18_Witness ==
    /\ pc = "update"
    /\ run = 1
    /\ {<<Drafts>>, <<Drafts, Old>>} \subseteq begin.dirs \ dirs
    /\ <<Guide, Id1>> \in begin.dirs \ dirs
    /\ <<Guide>> \in dirs
    /\ MovedNow # {}

\* C19 (as claimed): relocation destroys no content file: there are as many
\* content files under the root after rename_files_and_folders as before.
C19_NoFileDestroyed ==
    pc = "update" =>
        Cardinality(DOMAIN files) = Cardinality(DOMAIN begin.files)

\* the string occurs somewhere in the tree as an item or a field value
RECURSIVE Mentions(_, _)
Mentions(node, str) ==
    IF node.k = "str" THEN node.s = str
    ELSE \E i \in 1..Len(node.items) : Mentions(node.items[i], str)

\* C20 (as claimed): update_nav_structure applies the mapping at the places
\* extract_all_pages yields and nowhere else: called with a mapping of one
\* pair whose value occurs nowhere in the tree, the value occurs in the
\* result exactly when extract_all_pages yields the key.
C20_SamePositions ==
    (call = "update" /\ ~res.raised /\ ~ExtractRaises(arg.nav_obj)) =>
        \A old \in DOMAIN arg.mapping :
            (old \in Range(extract_all_pages(arg.nav_obj)))
                <=> Mentions(res.nav, arg.mapping[old])

(***************************************************************************)
(* C21                                                                     *)
(***************************************************************************)
\* the entries met so far that check_redirect gave a result for
CheckedSoFar == SelectSeq(outcomes, LAMBDA o : o.status # "skipped")

\* C21: in validate_all, after any number of entries, passed + failed is the
\* number of entries check_redirect gave a result for (skipped entries count
\* in neither), passed + failed <= total, and failed_redirects holds, once
\* each and in order, the results whose status is "failed" or "error", as
\* many as failed.
C21_CountersConsistent ==
    vpc \in {"loop", "returned", "raised"} =>
        LET not_passed == SelectSeq(CheckedSoFar,
                                    LAMBDA o : o.status # "passed")
            passed == SelectSeq(CheckedSoFar, LAMBDA o : o.status = "passed")
        IN  /\ results.passed + results.failed = Len(CheckedSoFar)
            /\ Len(outcomes) = vidx
            /\ results.passed = Len(passed)
            /\ results.total = Len(redirects)
            /\ results.passed + results.failed <= results.total
            /\ Len(results.failed_redirects) = results.failed
            /\ results.failed_redirects =
                   [i \in 1..Len(not_passed) |-> not_passed[i].result]
            /\ \A i \in 1..Len(not_passed) :
                   not_passed[i].status \in {"failed", "error"}

C21_Witness ==
    /\ vpc = "returned"
    /\ \E i, j, k \in 1..Len(outcomes) :
           /\ outcomes[i].status = "skipped"
           /\ outcomes[j].status = "error"
           /\ outcomes[k].status = "passed"
    /\ results.passed + results.failed < results.total

====
